---- MODULE Spec2Model ----
(***************************************************************************)
(* Wallet service with Paystack: the wallet routes (deposit, webhook,      *)
(* transfer, and the reads behind the permission guard) as request         *)
(* handlers running against one database.  Every request has a database    *)
(* session of its own: a read returns the committed row at the time of the *)
(* read, writes stay in the session until db.commit(), and a commit writes *)
(* the session's values atomically.                                        *)
(***************************************************************************)
EXTENDS Integers, Sequences, FiniteSets, Bags, TLC

\* ---------------------------------------------------------------- bounds
\* Requests started in one behaviour.
MaxOps == 4

\* Sign-ins (google_callback requests) started in one behaviour.
MaxLogins == 4

\* API key requests (create, rollover) started in one behaviour.
MaxKeyOps == 6

\* Request slots: the handlers that can be in flight at the same time.
Reqs == {1, 2}

\* ------------------------------------------------------------- constants
\* Minimum deposit in kobo.
MinDeposit == 100

\* Active API keys a user may hold.
MaxActiveKeys == 5

Users == {"u1", "u2", "u3"}
Wallets == {"w1", "w2", "w3"}

\* The wallet whose user_id is u (one wallet per provisioned user).
WalletOfUser(u) ==
    CASE u = "u1" -> "w1"
      [] u = "u2" -> "w2"
      [] OTHER    -> "w3"

\* Wallet numbers a transfer request can name.
NoWallet == "none"
WalletNumbers == Wallets \cup {"unknown"}

\* The wallet carrying wallet number n, NoWallet when there is none.
WalletByNumber(n) == IF n \in Wallets THEN n ELSE NoWallet

DepositUsers == {"u1", "u2"}
ReadUsers == {"u1", "u2"}
TransferUsers == {"u1", "u2"}
DepositAmounts == {99, 100}
TransferAmounts == {-100, 0, 100, 200}
WebhookAmounts == {100, 200}
Signatures == {"missing", "invalid", "valid"}
Events == {"charge.success", "transfer.success"}
EventStatuses == {"success", "failed"}

\* References a webhook can carry beside those of the deposit rows.
NoRef == 0
UnknownRef == -1

\* data.get("amount") of a payload that carries no amount (None).
NoAmount == -1

\* Credentials of a request to a wallet route: a JWT (no API key), or an API
\* key with its permission set.
Permissions == {"deposit", "transfer", "read"}
NoCred == [kind |-> "none", perms |-> {}]
Jwt == [kind |-> "jwt", perms |-> {}]
ApiKey(perms) == [kind |-> "key", perms |-> perms]
Credentials == {Jwt, ApiKey({"read"}), ApiKey({"deposit", "transfer"})}

\* Outcomes of the gateway's live verification of a reference.
GatewayStatuses == {"success", "failed", "abandoned"}

\* Google accounts that sign in: one of a provisioned user, two new ones.
Principals == {"u1", "u4", "u5"}

\* How the OAuth exchange before the provisioning ends: no code in the
\* request, an HTTP error from Google, or the user info.
OAuthOutcomes == {"no_code", "error", "ok"}

\* Callers of the key routes, and the name and permissions a create request
\* asks for (the last one names a permission that does not exist).
KeyUsers == {"u1", "u2"}
KeyRequests ==
    {[name |-> "ci", perms |-> {"read"}],
     [name |-> "app", perms |-> {"deposit", "transfer"}],
     [name |-> "ops", perms |-> {"read", "admin"}]}
Expiries == {"1D", "1y", "2W"}

\* ------------------------------------------------------------------ state
VARIABLES
    balance,      \* committed wallets.balance, per wallet
    txs,          \* committed transactions rows; a row's id is its index
    logs,         \* committed webhook_logs rows
    req,          \* per request slot: the handler's position and locals
    last,         \* the latest response sent
    nops,         \* requests started so far
    cred,         \* the credentials of the latest request to a guarded route
    hist,         \* history: the committed balance mutations, in commit order;
                  \* a credit records the row status its handler had read
                  \* (found) and the committed status it overwrote (prior)
    userRows,     \* committed users rows (the google_id of each); id = index
    walletRows,   \* committed wallets rows (the user_id of each)
    keyRows,      \* committed api_keys rows: how many rows of each content
    areq,         \* per request slot: an auth or key handler's position
    alast,        \* the latest response of an auth or key route
    aops          \* auth and key requests started so far

ledgerVars == <<balance, txs, logs, req, last, nops, cred, hist>>
acctVars == <<userRows, walletRows, keyRows, areq, alast, aops>>
vars == <<balance, txs, logs, req, last, nops, cred, hist,
          userRows, walletRows, keyRows, areq, alast, aops>>

NoExtra == [kind |-> "none", amount |-> 0, status |-> "", wallet |-> NoWallet]

Idle ==
    [op |-> "idle", pc |-> "idle", user |-> "", amount |-> 0,
     number |-> NoWallet, tx |-> 0, sender |-> NoWallet, recipient |-> NoWallet,
     balS |-> 0, balR |-> 0, newS |-> 0, newR |-> 0,
     sig |-> "", ref |-> NoRef, found |-> ""]

\* A response: the operation, its result and, for an insufficient-balance
\* result, the context it reports (the balance read and the amount required).
Response(op, resp, bal, required) ==
    [op |-> op, resp |-> resp, balance |-> bal, required |-> required]

NoResponse == Response("none", "", 0, 0)

\* The handler of slot r returns (or raises) resp: its session is closed, and
\* what it has not committed is gone.
Respond(r, resp) ==
    /\ req' = [req EXCEPT ![r] = Idle]
    /\ last' = Response(req[r].op, resp, 0, 0)

\* The same for a handler that answers in its first step.
RespondAtStart(r, op, resp) ==
    /\ req' = [req EXCEPT ![r] = Idle]
    /\ last' = Response(op, resp, 0, 0)

Free(r) == req[r].pc = "idle"

\* A new request takes the lowest free slot.
CanStart(r) ==
    /\ nops < MaxOps
    /\ Free(r)
    /\ \A q \in Reqs : q < r => ~Free(q)

\* The api_keys row a handler is about to insert, when it has none.
NoKey ==
    [user |-> "", name |-> "", perms |-> {}, expired |-> FALSE, revoked |-> FALSE]

\* A slot of the auth and key routes: the handler's position, its caller (the
\* Google account or the user), the users row it inserted, the key it read
\* and the key it is about to insert.
AIdle ==
    [op |-> "idle", pc |-> "idle", user |-> "", uid |-> 0,
     old |-> NoKey, row |-> NoKey]

AResponse(op, resp) == [op |-> op, resp |-> resp]
NoAResponse == AResponse("none", "")

ARespond(r, op, resp) ==
    /\ areq' = [areq EXCEPT ![r] = AIdle]
    /\ alast' = AResponse(op, resp)

AFree(r) == areq[r].pc = "idle"

\* A new auth or key request takes the lowest free slot.
ACanStart(r, max) ==
    /\ aops < max
    /\ AFree(r)
    /\ \A q \in Reqs : q < r => ~AFree(q)

Init ==
    /\ balance = [w \in Wallets |-> 0]
    /\ txs = <<>>
    /\ logs = <<>>
    /\ req = [r \in Reqs |-> Idle]
    /\ last = NoResponse
    /\ nops = 0
    /\ cred = NoCred
    /\ hist = <<>>
    /\ userRows = <<"u1", "u2", "u3">>
    /\ walletRows = <<1, 2, 3>>
    /\ keyRows = EmptyBag
    /\ areq = [r \in Reqs |-> AIdle]
    /\ alast = NoAResponse
    /\ aops = 0

\* ------------------------------------------------------ ledger primitives
\* Wallet.credit: in-memory addition.
Credit(bal, amount) == bal + amount

\* Wallet.debit: refuses a debit that would leave the balance negative.
CanDebit(bal, amount) == bal >= amount
Debit(bal, amount) == bal - amount

\* Transaction.fetch_one(db, reference=ref): the row's id, 0 when none.
\* A deposit row's reference is dep_<id>.
DepositRefs == {i \in 1..Len(txs) : txs[i].type = "deposit"}
FetchTxByRef(ref) == IF ref \in DepositRefs THEN ref ELSE 0

\* ----------------------------------------------------------------- guard
\* Variant of the guard that lets every API key through.
PermissionNotChecked(auth, permission) == TRUE

\* require_permission(permission): a JWT user has every permission, an API
\* key needs the permission in its set.
HasPermission(auth, permission) ==
    IF auth.kind = "jwt" THEN TRUE ELSE permission \in auth.perms

\* The permission each guarded route requires.
PermissionOf(op) ==
    CASE op = "deposit"  -> "deposit"
      [] op = "transfer" -> "transfer"
      [] OTHER           -> "read"

\* --------------------------------------------------------------- deposit
\* Variant without the minimum.
DepositAnyAmountOk(amount) == TRUE

DepositAmountOk(amount) == ~(amount < MinDeposit)

\* deposit_to_wallet up to the gateway call: validation, wallet lookup and
\* the committed insert of the PENDING row.
DepositStart(r, auths) ==
    /\ CanStart(r)
    /\ nops' = nops + 1
    /\ \E auth \in auths, u \in DepositUsers, a \in DepositAmounts :
         /\ cred' = auth
         /\ IF ~HasPermission(auth, PermissionOf("deposit"))
            THEN /\ RespondAtStart(r, "deposit", "403")
                 /\ UNCHANGED txs
            ELSE IF ~DepositAmountOk(a)
            THEN /\ RespondAtStart(r, "deposit", "400")
                 /\ UNCHANGED txs
            ELSE /\ txs' = Append(txs,
                        [type |-> "deposit", direction |-> "credit",
                         wallet |-> WalletOfUser(u), amount |-> a,
                         status |-> "pending", related |-> 0, extra |-> NoExtra])
                 /\ req' = [req EXCEPT ![r] =
                        [Idle EXCEPT !.op = "deposit", !.pc = "gateway", !.user = u,
                                     !.amount = a, !.tx = Len(txs) + 1]]
                 /\ UNCHANGED last
    /\ UNCHANGED <<balance, logs, hist>>
    /\ UNCHANGED acctVars

\* Variant whose failure path leaves the row as it is.
DepositGatewayLeavesPending(r) ==
    /\ req[r].op = "deposit" /\ req[r].pc = "gateway"
    /\ \E gatewayOk \in BOOLEAN :
         Respond(r, IF gatewayOk THEN "200" ELSE "500")
    /\ UNCHANGED <<balance, txs, logs, nops, cred, hist>>
    /\ UNCHANGED acctVars

\* The gateway call returns: a successful initialization answers 200; an
\* exception or an unsuccessful status marks the row FAILED and answers 500.
DepositGateway(r) ==
    /\ req[r].op = "deposit" /\ req[r].pc = "gateway"
    /\ \E gatewayOk \in BOOLEAN :
         IF gatewayOk
         THEN /\ Respond(r, "200")
              /\ UNCHANGED txs
         ELSE /\ txs' = [txs EXCEPT ![req[r].tx].status = "failed"]
              /\ Respond(r, "500")
    /\ UNCHANGED <<balance, logs, nops, cred, hist>>
    /\ UNCHANGED acctVars

\* --------------------------------------------------------------- webhook
\* The data of a charge.success event: the reference of a deposit row with
\* any status and amount, or a missing or unknown reference.
WebhookData ==
    [ref : DepositRefs, status : EventStatuses,
     amount : WebhookAmounts \cup {NoAmount}]
    \cup [ref : {NoRef, UnknownRef}, status : {"success"}, amount : {100}]

\* Variant whose signature verification accepts every signature present.
SignatureNotVerified(sig) == IF sig = "missing" THEN "400" ELSE "ok"

\* verify_paystack_signature and the missing-header test before it.
SignatureResponse(sig) ==
    CASE sig = "missing" -> "400"
      [] sig = "invalid" -> "401"
      [] OTHER           -> "ok"

\* Variant without the idempotency check: no row counts as processed.
NeverProcessed(status) == FALSE

\* The idempotency check: a row already SUCCESS is not processed again.
AlreadyProcessed(status) == status = "success"

\* The webhook_logs row of a handler, as it is committed: the headers (the
\* signature) and, of the payload, the reference and the status.
WebhookLog(sig, ref, status) ==
    [processed |-> TRUE, sig |-> sig, ref |-> ref, status |-> status]

\* db.commit() of a handler that only marks its webhook log processed.
\* Variant that stores the event on the row before it decides to do nothing.
CommitLogAndExtra(sig, ref, status) ==
    /\ logs' = Append(logs, WebhookLog(sig, ref, status))
    /\ txs' = IF ref \in DepositRefs
              THEN [txs EXCEPT ![ref].extra = [kind |-> "event", amount |-> 0,
                                               status |-> status,
                                               wallet |-> NoWallet]]
              ELSE txs
    /\ UNCHANGED <<balance, hist>>

CommitLogOnly(sig, ref, status) ==
    /\ logs' = Append(logs, WebhookLog(sig, ref, status))
    /\ UNCHANGED <<balance, txs, hist>>

\* paystack_webhook up to its first read of the ledger: the signature check,
\* the uncommitted log insert, the event type, and the lookup of the row.
WebhookStart(r) ==
    /\ CanStart(r)
    /\ nops' = nops + 1
    /\ \E sig \in Signatures :
         IF SignatureResponse(sig) # "ok"
         THEN /\ RespondAtStart(r, "webhook", SignatureResponse(sig))
              /\ UNCHANGED <<balance, txs, logs, hist>>
         ELSE \E event \in Events :
           IF event # "charge.success"
           THEN \* returns without db.commit(): the log insert is never committed
                /\ RespondAtStart(r, "webhook", "200")
                /\ UNCHANGED <<balance, txs, logs, hist>>
           ELSE \E data \in WebhookData :
             LET ref == data.ref
                 status == data.status
                 amount == data.amount IN
             LET tx == FetchTxByRef(ref) IN
             IF ref = NoRef \/ tx = 0 \/ AlreadyProcessed(txs[tx].status)
             THEN /\ CommitLogOnly(sig, ref, status)
                  /\ RespondAtStart(r, "webhook", "200")
             ELSE IF status = "success"
             THEN /\ req' = [req EXCEPT ![r] =
                       [Idle EXCEPT !.op = "webhook", !.pc = "w_wallet",
                                    !.sig = sig, !.ref = ref, !.tx = tx,
                                    !.found = txs[tx].status,
                                    !.amount = amount]]
                  /\ UNCHANGED <<balance, txs, logs, last, hist>>
             ELSE /\ CommitLogOnly(sig, ref, status)
                  /\ RespondAtStart(r, "webhook", "200")
    /\ UNCHANGED cred
    /\ UNCHANGED acctVars

\* wallet.credit(amount) needs a number: with the None of a payload without
\* amount the addition raises, and the handler ends in an unhandled error.
IsAmount(amount) == amount # NoAmount

\* Variant that credits the amount twice.
WebhookDoubleCredit(bal, amount) == Credit(Credit(bal, amount), amount)

\* wallet.credit(amount) on the balance the session has read.
WebhookNewBalance(bal, amount) == Credit(bal, amount)

\* Wallet.fetch_one(db, id=transaction.wallet_id) and wallet.credit(amount),
\* in the session.
WebhookCreditWallet(r) ==
    /\ req[r].op = "webhook" /\ req[r].pc = "w_wallet"
    /\ LET w == txs[req[r].tx].wallet IN
       IF ~IsAmount(req[r].amount)
       THEN Respond(r, "500")
       ELSE /\ req' = [req EXCEPT
                   ![r].pc = "w_commit",
                   ![r].recipient = w,
                   ![r].balR = balance[w],
                   ![r].newR = WebhookNewBalance(balance[w], req[r].amount)]
            /\ UNCHANGED last
    /\ UNCHANGED <<balance, txs, logs, nops, cred, hist>>
    /\ UNCHANGED acctVars

\* db.commit(): the row's status and extra, the wallet's balance and the
\* processed log are written together.
WebhookCommit(r) ==
    /\ req[r].op = "webhook" /\ req[r].pc = "w_commit"
    /\ LET tx == req[r].tx IN
       /\ txs' = [txs EXCEPT ![tx].status = "success",
                             ![tx].extra = [kind |-> "event", amount |-> req[r].amount,
                                            status |-> "success", wallet |-> NoWallet]]
       /\ balance' = [balance EXCEPT ![req[r].recipient] = req[r].newR]
       /\ logs' = Append(logs, WebhookLog(req[r].sig, req[r].ref, "success"))
       /\ hist' = Append(hist, [op |-> "credit", tx |-> tx, amount |-> req[r].amount,
                                found |-> req[r].found,
                                prior |-> txs[tx].status,
                                sender |-> NoWallet,
                                recipient |-> req[r].recipient])
    /\ Respond(r, "200")
    /\ UNCHANGED <<nops, cred>>
    /\ UNCHANGED acctVars

\* -------------------------------------------------------------- transfer
\* Variant without the amount validation.
AnyAmountOk(amount) == TRUE

TransferAmountOk(amount) == ~(amount <= 0)

\* Variant without the balance check.
AnyBalanceSufficient(bal, amount) == TRUE

SufficientBalance(bal, amount) == ~(bal < amount)

\* transfer_funds: the request and its amount validation.
TransferStart(r, auths) ==
    /\ CanStart(r)
    /\ nops' = nops + 1
    /\ \E auth \in auths, u \in TransferUsers, n \in WalletNumbers,
          a \in TransferAmounts :
         /\ cred' = auth
         /\ IF ~HasPermission(auth, PermissionOf("transfer"))
            THEN RespondAtStart(r, "transfer", "403")
            ELSE IF ~TransferAmountOk(a)
            THEN RespondAtStart(r, "transfer", "400")
            ELSE /\ req' = [req EXCEPT ![r] =
                      [Idle EXCEPT !.op = "transfer", !.pc = "t_sender",
                                   !.user = u, !.number = n, !.amount = a]]
                 /\ UNCHANGED last
    /\ UNCHANGED <<balance, txs, logs, hist>>
    /\ UNCHANGED acctVars

\* The sender's wallet read into the session, and the balance check on it.
TransferCheckBalance(r) ==
    /\ req[r].op = "transfer" /\ req[r].pc = "t_sender"
    /\ LET s == WalletOfUser(req[r].user) IN
       IF ~SufficientBalance(balance[s], req[r].amount)
       THEN /\ req' = [req EXCEPT ![r] = Idle]
            /\ last' = Response("transfer", "insufficient", balance[s],
                                req[r].amount)
       ELSE /\ req' = [req EXCEPT ![r].pc = "t_recipient", ![r].sender = s,
                                  ![r].balS = balance[s]]
            /\ UNCHANGED last
    /\ UNCHANGED <<balance, txs, logs, nops, cred, hist>>
    /\ UNCHANGED acctVars

\* sender_wallet.debit(amount) and recipient_wallet.credit(amount) on the
\* balances the session has read.
NewSenderBalance(bal, amount) == Debit(bal, amount)

\* Variant that leaves the recipient without its credit.
RecipientNotCredited(bal, amount) == bal

NewRecipientBalance(bal, amount) == Credit(bal, amount)

\* Variant without the self-transfer check.
NeverSelfTransfer(recipient, sender) == FALSE

\* recipient_wallet.id == sender_wallet.id
SelfTransfer(recipient, sender) == recipient = sender

\* The recipient's wallet read into the session, the self-transfer check, and
\* the in-memory debit and credit.
TransferApply(r) ==
    /\ req[r].op = "transfer" /\ req[r].pc = "t_recipient"
    /\ LET w == WalletByNumber(req[r].number) IN
       IF w = NoWallet
       THEN Respond(r, "404")
       ELSE IF SelfTransfer(w, req[r].sender)
       THEN Respond(r, "400")
       ELSE IF ~CanDebit(req[r].balS, req[r].amount)
       THEN Respond(r, "500")
       ELSE /\ req' = [req EXCEPT
                   ![r].pc = "t_commit",
                   ![r].recipient = w,
                   ![r].balR = balance[w],
                   ![r].newS = NewSenderBalance(req[r].balS, req[r].amount),
                   ![r].newR = NewRecipientBalance(balance[w], req[r].amount)]
            /\ UNCHANGED last
    /\ UNCHANGED <<balance, txs, logs, nops, cred, hist>>
    /\ UNCHANGED acctVars

\* Variant whose debit row is linked before its partner has an id.
TransferRowDebitUnlinked(direction, w, amount, related, other) ==
    [type |-> "transfer", direction |-> direction, wallet |-> w, amount |-> amount,
     status |-> "success",
     related |-> IF direction = "debit" THEN 0 ELSE related,
     extra |-> [kind |-> IF direction = "debit" THEN "recipient_wallet"
                         ELSE "sender_wallet",
                amount |-> 0, status |-> "", wallet |-> other]]

\* A transfer's row: SUCCESS from its creation, linked to its partner row.
TransferRow(direction, w, amount, related, other) ==
    [type |-> "transfer", direction |-> direction, wallet |-> w, amount |-> amount,
     status |-> "success", related |-> related,
     extra |-> [kind |-> IF direction = "debit" THEN "recipient_wallet"
                         ELSE "sender_wallet",
                amount |-> 0, status |-> "", wallet |-> other]]

\* The id a transaction draft carries once it is persisted as the k-th row
\* after the n committed ones; a draft's back-reference is its partner's id.
EventualId(n, k) == n + k

\* db.commit(): both rows and both balances are written together.
TransferCommit(r) ==
    /\ req[r].op = "transfer" /\ req[r].pc = "t_commit"
    /\ LET n == Len(txs) IN
       txs' = txs \o
              << TransferRow("debit", req[r].sender, req[r].amount,
                             EventualId(n, 2), req[r].recipient),
                 TransferRow("credit", req[r].recipient, req[r].amount,
                             EventualId(n, 1), req[r].sender) >>
    /\ balance' = [balance EXCEPT ![req[r].sender] = req[r].newS,
                                  ![req[r].recipient] = req[r].newR]
    /\ hist' = Append(hist, [op |-> "transfer", tx |-> Len(txs) + 1,
                             amount |-> req[r].amount, found |-> "", prior |-> "",
                             sender |-> req[r].sender,
                             recipient |-> req[r].recipient])
    /\ Respond(r, "200")
    /\ UNCHANGED <<logs, nops, cred>>
    /\ UNCHANGED acctVars

\* ------------------------------------------------------------------ reads
\* get_wallet_balance: the guard, then the wallet's committed balance.
BalanceRead(r, auths) ==
    /\ CanStart(r)
    /\ nops' = nops + 1
    /\ \E auth \in auths, u \in ReadUsers :
         /\ cred' = auth
         /\ req' = [req EXCEPT ![r] = Idle]
         /\ IF ~HasPermission(auth, PermissionOf("balance"))
            THEN last' = Response("balance", "403", 0, 0)
            ELSE last' = Response("balance", "200", balance[WalletOfUser(u)], 0)
    /\ UNCHANGED <<balance, txs, logs, hist>>
    /\ UNCHANGED acctVars

\* get_transaction_history: the guard, then the rows of the user's wallet.
TransactionsRead(r, auths) ==
    /\ CanStart(r)
    /\ nops' = nops + 1
    /\ \E auth \in auths, u \in ReadUsers :
         /\ cred' = auth
         /\ req' = [req EXCEPT ![r] = Idle]
         /\ IF ~HasPermission(auth, PermissionOf("transactions"))
            THEN last' = Response("transactions", "403", 0, 0)
            ELSE last' = Response("transactions", "200", 0, 0)
    /\ UNCHANGED <<balance, txs, logs, hist>>
    /\ UNCHANGED acctVars

\* Transaction.fetch_one(db, reference=reference, user_id=user.id)
FetchTxByRefOfUser(ref, u) ==
    IF ref \in DepositRefs /\ txs[ref].wallet = WalletOfUser(u) THEN ref ELSE 0

\* check_deposit_status up to the gateway call: the guard and the lookup of
\* the caller's row.
StatusStart(r, auths) ==
    /\ CanStart(r)
    /\ nops' = nops + 1
    /\ \E auth \in auths, u \in ReadUsers,
          ref \in DepositRefs \cup {UnknownRef} :
         /\ cred' = auth
         /\ IF ~HasPermission(auth, PermissionOf("status"))
            THEN RespondAtStart(r, "status", "403")
            ELSE IF FetchTxByRefOfUser(ref, u) = 0
            THEN RespondAtStart(r, "status", "404")
            ELSE /\ req' = [req EXCEPT ![r] =
                      [Idle EXCEPT !.op = "status", !.pc = "s_gateway",
                                   !.user = u, !.ref = ref, !.tx = ref,
                                   !.amount = txs[ref].amount,
                                   !.found = txs[ref].status]]
                 /\ UNCHANGED last
    /\ UNCHANGED <<balance, txs, logs, hist>>
    /\ UNCHANGED acctVars

\* The data of a status response: the reference, the row's status and amount
\* as read, and the gateway's status when the verification returned one.
StatusResponse(ref, status, amount, paystackStatus) ==
    [op |-> "status", resp |-> "200", balance |-> 0, required |-> 0,
     reference |-> ref, status |-> status, amount |-> amount,
     paystack_status |-> paystackStatus]

\* Variant that reconciles the deposit when the gateway reports success.
StatusGatewayReconciles(r) ==
    /\ req[r].op = "status" /\ req[r].pc = "s_gateway"
    /\ \E verified \in BOOLEAN, paystackStatus \in GatewayStatuses :
         LET t == req[r].tx IN
         /\ IF verified /\ paystackStatus = "success" /\ req[r].found = "pending"
            THEN /\ txs' = [txs EXCEPT ![t].status = "success"]
                 /\ balance' = [balance EXCEPT
                                   ![txs[t].wallet] = Credit(@, txs[t].amount)]
            ELSE UNCHANGED <<balance, txs>>
         /\ req' = [req EXCEPT ![r] = Idle]
         /\ last' = StatusResponse(req[r].ref, req[r].found, req[r].amount,
                                   IF verified THEN paystackStatus ELSE "")
    /\ UNCHANGED <<logs, nops, cred, hist>>
    /\ UNCHANGED acctVars

\* verify_transaction returns a status or raises: either way the handler
\* answers 200 with the status it read from the row.
StatusGateway(r) ==
    /\ req[r].op = "status" /\ req[r].pc = "s_gateway"
    /\ \E verified \in BOOLEAN, paystackStatus \in GatewayStatuses :
         /\ req' = [req EXCEPT ![r] = Idle]
         /\ last' = StatusResponse(req[r].ref, req[r].found, req[r].amount,
                                   IF verified THEN paystackStatus ELSE "")
    /\ UNCHANGED <<balance, txs, logs, nops, cred, hist>>
    /\ UNCHANGED acctVars

\* Variant of a failing handler whose debit row, inserted with a commit of
\* its own, stays behind.
FailKeepsDebitRow(r) ==
    /\ req[r].pc \in {"w_wallet", "w_commit", "t_recipient", "t_commit"}
    /\ Respond(r, "aborted")
    /\ txs' = IF req[r].pc = "t_commit"
              THEN Append(txs, TransferRow("debit", req[r].sender, req[r].amount,
                                           EventualId(Len(txs), 2),
                                           req[r].recipient))
              ELSE txs
    /\ UNCHANGED <<balance, logs, nops, cred, hist>>
    /\ UNCHANGED acctVars

\* A handler that holds uncommitted work fails (its worker dies, its database
\* connection drops): no response is sent and the session is rolled back.
Fail(r) ==
    /\ req[r].pc \in {"w_wallet", "w_commit", "t_recipient", "t_commit"}
    /\ Respond(r, "aborted")
    /\ UNCHANGED <<balance, txs, logs, nops, cred, hist>>
    /\ UNCHANGED acctVars

\* The routes that write the ledger.
Step(r, auths) ==
    \/ DepositStart(r, auths)
    \/ DepositGateway(r)
    \/ WebhookStart(r)
    \/ WebhookCreditWallet(r)
    \/ WebhookCommit(r)
    \/ TransferStart(r, auths)
    \/ TransferCheckBalance(r)
    \/ TransferApply(r)
    \/ TransferCommit(r)
    \/ Fail(r)

\* The routes that read it.
ReadStep(r, auths) ==
    \/ BalanceRead(r, auths)
    \/ TransactionsRead(r, auths)
    \/ StatusStart(r, auths)
    \/ StatusGateway(r)

\* Requests of JWT users, handled in parallel.
Next == \E r \in Reqs : Step(r, {Jwt})

\* One request at a time: a step is taken only while no other handler is in
\* flight.
SeqNext == \E r \in Reqs : (\A q \in Reqs \ {r} : Free(q)) /\ Step(r, {Jwt})

\* Every route, with any credentials, one request at a time.
ApiNext ==
    \E r \in Reqs :
        /\ \A q \in Reqs \ {r} : Free(q)
        /\ (Step(r, Credentials) \/ ReadStep(r, Credentials))

Spec == Init /\ [][Next]_vars

SeqSpec == Init /\ [][SeqNext]_vars

ApiSpec == Init /\ [][ApiNext]_vars

\* ---------------------------------------------------------- provisioning

\* User.fetch_one(db, google_id=...): the id (row number) of the first users
\* row of the Google account, 0 when there is none.
FetchUserByGoogleId(g) ==
    IF \E i \in 1..Len(userRows) : userRows[i] = g
    THEN CHOOSE i \in 1..Len(userRows) :
            /\ userRows[i] = g
            /\ \A j \in 1..(i - 1) : userRows[j] # g
    ELSE 0

\* GET /auth/google/callback up to the lookup: no code in the request is a
\* 400, a failed exchange with Google raises, otherwise the handler goes on
\* to look the account up.
CallbackStart(r) ==
    /\ ACanStart(r, MaxLogins)
    /\ aops' = aops + 1
    /\ \E g \in Principals, o \in OAuthOutcomes :
          CASE o = "no_code" -> ARespond(r, "callback", "400")
            [] o = "error" -> ARespond(r, "callback", "500")
            [] OTHER ->
                /\ areq' = [areq EXCEPT ![r] =
                              [AIdle EXCEPT !.op = "callback", !.pc = "p_lookup",
                                            !.user = g]]
                /\ UNCHANGED alast
    /\ UNCHANGED <<userRows, walletRows, keyRows>>
    /\ UNCHANGED ledgerVars

\* The lookup of the account: a known user is signed in at once, with no
\* insert of any kind; an unknown one is about to be created.
CallbackLookup(r) ==
    /\ areq[r].pc = "p_lookup"
    /\ LET uid == FetchUserByGoogleId(areq[r].user) IN
          IF uid # 0
          THEN ARespond(r, "callback", "200")
          ELSE /\ areq' = [areq EXCEPT ![r].pc = "p_user"]
               /\ UNCHANGED alast
    /\ UNCHANGED <<userRows, walletRows, keyRows, aops>>
    /\ UNCHANGED ledgerVars

\* user.insert(db), a commit of its own. When another handler has inserted
\* the same account since the lookup, the insert either violates a unique
\* constraint on the account (the handler raises) or adds a second row.
CallbackInsertUser(r) ==
    /\ areq[r].pc = "p_user"
    /\ \/ /\ userRows' = Append(userRows, areq[r].user)
          /\ areq' = [areq EXCEPT ![r].pc = "p_wallet",
                                  ![r].uid = Len(userRows) + 1]
          /\ UNCHANGED alast
       \/ /\ FetchUserByGoogleId(areq[r].user) # 0
          /\ ARespond(r, "callback", "500")
          /\ UNCHANGED userRows
    /\ UNCHANGED <<walletRows, keyRows, aops>>
    /\ UNCHANGED ledgerVars

\* wallet.insert(db) for the user just created, a second commit, and the
\* answer with the token.
CallbackInsertWallet(r) ==
    /\ areq[r].pc = "p_wallet"
    /\ walletRows' = Append(walletRows, areq[r].uid)
    /\ ARespond(r, "callback", "200")
    /\ UNCHANGED <<userRows, keyRows, aops>>
    /\ UNCHANGED ledgerVars

\* The handler fails between its two commits (its worker dies, the wallet
\* insert raises): the users row stays, no response is sent.
CallbackFail(r) ==
    /\ areq[r].pc = "p_wallet"
    /\ ARespond(r, "callback", "aborted")
    /\ UNCHANGED <<userRows, walletRows, keyRows, aops>>
    /\ UNCHANGED ledgerVars

\* The sign-in route, its handlers interleaved.
AuthNext ==
    \E r \in Reqs :
        \/ CallbackStart(r)
        \/ CallbackLookup(r)
        \/ CallbackInsertUser(r)
        \/ CallbackInsertWallet(r)
        \/ CallbackFail(r)

AuthSpec == Init /\ [][AuthNext]_vars

\* --------------------------------------------------------------- api keys

\* expiry.strip().upper() on the expiry strings of the requests.
Normalise(e) == IF e = "1y" THEN "1Y" ELSE e

\* The keys of parse_expiry_to_datetime's mapping.
ExpiryMapping == {"1H", "1D", "1M", "1Y"}

\* parse_expiry_to_datetime: TRUE when the string names a lifetime (the
\* handler then gets a time in the future), FALSE when it returns None.
ParseExpiry(e) == Normalise(e) \in ExpiryMapping

\* api_key.is_active(): neither revoked nor past its expires_at.
IsActive(k) == ~k.revoked /\ ~k.expired

\* The caller's keys that are active, as the handlers count them.
ActiveKeys(u) ==
    BagCardinality([k \in {x \in BagToSet(keyRows) : x.user = u /\ IsActive(x)}
                      |-> CopiesIn(k, keyRows)])

\* The loop over request.permissions against valid_permissions.
ValidPermissions(perms) == \A p \in perms : p \in Permissions

\* APIKey(...) of create_api_key: the caller's key with the requested name
\* and permissions, a lifetime that has just begun, not revoked.
CreateKey(u, q) ==
    [user |-> u, name |-> q.name, perms |-> q.perms,
     expired |-> FALSE, revoked |-> FALSE]

RolloverKeyAllPermissions(u, old) ==
    [user |-> u, name |-> old.name, perms |-> Permissions,
     expired |-> FALSE, revoked |-> FALSE]

\* APIKey(...) of rollover_api_key: the caller's new key with the old key's
\* name and permissions, not revoked.
RolloverKey(u, old) ==
    [user |-> u, name |-> old.name, perms |-> old.perms,
     expired |-> FALSE, revoked |-> FALSE]

\* POST /keys/create up to the insert: expiry, then the limit of active keys,
\* then the permissions.
KeyCreateStart(r) ==
    /\ ACanStart(r, MaxKeyOps)
    /\ aops' = aops + 1
    /\ \E u \in KeyUsers, q \in KeyRequests, e \in Expiries :
          IF ~ParseExpiry(e) THEN ARespond(r, "create", "400")
          ELSE IF ActiveKeys(u) >= MaxActiveKeys THEN ARespond(r, "create", "400")
          ELSE IF ~ValidPermissions(q.perms) THEN ARespond(r, "create", "400")
          ELSE /\ areq' = [areq EXCEPT ![r] =
                             [AIdle EXCEPT !.op = "create", !.pc = "k_insert",
                                           !.user = u, !.row = CreateKey(u, q)]]
               /\ UNCHANGED alast
    /\ UNCHANGED <<userRows, walletRows, keyRows>>
    /\ UNCHANGED ledgerVars

\* The keys a rollover request can name: a stored key, or an id no key has.
KeyIds == BagToSet(keyRows) \cup {NoKey}

\* APIKey.fetch_one(db, id=key_id, user_id=user.id): the key of that id when
\* it is the caller's, NoKey otherwise.
FetchKeyOfUser(k, u) == IF k # NoKey /\ k.user = u THEN k ELSE NoKey

\* POST /keys/rollover up to the insert: the id, the caller's key of that id,
\* the key must not be active, the new expiry, the limit of active keys.
RolloverStart(r) ==
    /\ ACanStart(r, MaxKeyOps)
    /\ aops' = aops + 1
    /\ \E u \in KeyUsers, k \in KeyIds, e \in Expiries, uuidOk \in BOOLEAN :
          LET old == FetchKeyOfUser(k, u) IN
          IF ~uuidOk THEN ARespond(r, "rollover", "400")
          ELSE IF old = NoKey THEN ARespond(r, "rollover", "404")
          ELSE IF IsActive(old) THEN ARespond(r, "rollover", "400")
          ELSE IF ~ParseExpiry(e) THEN ARespond(r, "rollover", "400")
          ELSE IF ActiveKeys(u) >= MaxActiveKeys THEN ARespond(r, "rollover", "400")
          ELSE /\ areq' = [areq EXCEPT ![r] =
                             [AIdle EXCEPT !.op = "rollover", !.pc = "k_insert",
                                           !.user = u, !.old = old,
                                           !.row = RolloverKey(u, old)]]
               /\ UNCHANGED alast
    /\ UNCHANGED <<userRows, walletRows, keyRows>>
    /\ UNCHANGED ledgerVars

\* api_key.insert(db) / new_key.insert(db) and the 201 answer.
KeyInsert(r) ==
    /\ areq[r].pc = "k_insert"
    /\ keyRows' = keyRows (+) SetToBag({areq[r].row})
    /\ ARespond(r, areq[r].op, "201")
    /\ UNCHANGED <<userRows, walletRows, aops>>
    /\ UNCHANGED ledgerVars

\* Time passes beyond the expires_at of a stored key.
KeyExpires ==
    /\ \E k \in BagToSet(keyRows) :
          /\ ~k.expired
          /\ keyRows' = (keyRows (-) SetToBag({k}))
                          (+) SetToBag({[k EXCEPT !.expired = TRUE]})
    /\ UNCHANGED <<userRows, walletRows, areq, alast, aops>>
    /\ UNCHANGED ledgerVars

\* The key routes, their handlers interleaved, and the clock.
KeyNext ==
    \/ \E r \in Reqs :
          \/ KeyCreateStart(r)
          \/ RolloverStart(r)
          \/ KeyInsert(r)
    \/ KeyExpires

KeySpec == Init /\ [][KeyNext]_vars

\* The key routes with one request handled at a time.
KeySeqNext ==
    \/ \E r \in Reqs :
          \/ (\A q \in Reqs : AFree(q)) /\ KeyCreateStart(r)
          \/ (\A q \in Reqs : AFree(q)) /\ RolloverStart(r)
          \/ KeyInsert(r)
    \/ KeyExpires

KeySeqSpec == Init /\ [][KeySeqNext]_vars

\* ------------------------------------------------------------ properties
\* Wallet credits committed by webhook handlers for transaction row t.
CreditsOf(t) ==
    Cardinality({i \in 1..Len(hist) : hist[i].op = "credit" /\ hist[i].tx = t})

\* Signature-valid success deliveries for the reference of row t that were
\* answered 200 (each leaves one committed webhook log).
Delivered(t) ==
    Cardinality({i \in 1..Len(logs) : logs[i].ref = t /\ logs[i].status = "success"})

RECURSIVE SumOver(_, _)
SumOver(f, S) ==
    IF S = {} THEN 0
    ELSE LET x == CHOOSE y \in S : TRUE IN f[x] + SumOver(f, S \ {x})

SumBalances == SumOver(balance, Wallets)

\* Amount credited by the reconciliations that moved a row to SUCCESS.
TotalCredited ==
    SumOver([i \in 1..Len(hist) |->
                IF hist[i].op = "credit" /\ hist[i].prior # "success"
                THEN hist[i].amount ELSE 0],
            1..Len(hist))

\* The step appends an entry of kind op to the history of committed mutations.
Commits(op) ==
    /\ Len(hist') = Len(hist) + 1
    /\ hist'[Len(hist')].op = op

\* C1: of two webhook handlers for the same reference running concurrently,
\* the wallet is credited at most once: a handler that read the row PENDING
\* never commits a wallet credit for it once the row is SUCCESS (the losing
\* handler makes no balance change), so no row is credited twice.
C1_LoserMakesNoCredit ==
    \A i \in 1..Len(hist) :
        hist[i].op = "credit" /\ hist[i].found = "pending"
        => /\ hist[i].prior # "success"
           /\ CreditsOf(hist[i].tx) <= 1

\* C2: with requests handled one after the other, a success event delivered
\* twice or more for a reference credits the wallet exactly once, and a
\* delivery that finds the row SUCCESS is acknowledged and changes no wallet
\* balance and no transaction row.
C2_SecondDeliveryNoOp ==
    /\ Len(logs') = Len(logs) + 1
    /\ logs'[Len(logs')].ref \in DepositRefs
    /\ logs'[Len(logs')].status = "success"
    /\ txs[logs'[Len(logs')].ref].status = "success"
    => /\ balance' = balance
       /\ txs' = txs
       /\ last' = Response("webhook", "200", 0, 0)

C2_ReplayCreditsOnce ==
    /\ [](\A t \in DepositRefs : Delivered(t) >= 2 => CreditsOf(t) = 1)
    /\ [][C2_SecondDeliveryNoOp]_vars

C2_Witness ==
    \E t \in DepositRefs :
        /\ Delivered(t) = 2
        /\ CreditsOf(t) = 1
        /\ balance[txs[t].wallet] = txs[t].extra.amount

\* C3: every wallet's committed balance is >= 0 in every reachable state,
\* under any interleaving of deposits, webhooks and transfers.
C3_BalanceNonNegative == \A w \in Wallets : balance[w] >= 0

\* Two transfers out of one wallet have committed although together they
\* exceed everything ever credited; the wallet stands at 0.
C3_Witness ==
    \E i, j \in 1..Len(hist) :
        /\ i < j
        /\ hist[i].op = "transfer" /\ hist[j].op = "transfer"
        /\ hist[i].sender = hist[j].sender
        /\ hist[i].amount + hist[j].amount > TotalCredited
        /\ balance[hist[i].sender] = 0

\* The committed mutations in the order f, run one after the other from the
\* empty ledger: a credit adds its amount, a transfer moves its amount when
\* the sender's balance covers it and is refused otherwise.
RECURSIVE Replay(_, _)
Replay(ops, bal) ==
    IF ops = <<>> THEN bal
    ELSE LET h == Head(ops) IN
         IF h.op = "credit"
         THEN Replay(Tail(ops), [bal EXCEPT ![h.recipient] = @ + h.amount])
         ELSE IF bal[h.sender] >= h.amount
         THEN Replay(Tail(ops), [bal EXCEPT ![h.sender] = @ - h.amount,
                                            ![h.recipient] = @ + h.amount])
         ELSE Replay(Tail(ops), bal)

Orders(n) == {f \in [1..n -> 1..n] : \A i, j \in 1..n : i # j => f[i] # f[j]}

\* C4: money is conserved: the sum of all balances equals the amount credited
\* by the reconciliations that moved a row to SUCCESS, and a transfer never
\* changes the sum of all balances.
C4_TransferKeepsSum ==
    Commits("transfer") => SumOver(balance', Wallets) = SumBalances

C4_MoneyConserved ==
    /\ [](SumBalances = TotalCredited)
    /\ [][C4_TransferKeepsSum]_vars

\* C5: transfers serialize with each other and with webhook credits at the
\* balance mutation: once a transfer has committed (and no row was credited
\* twice), the committed balances are those of running the committed credits
\* and transfers one after the other in some order.
C5_SerialOutcome ==
    /\ \E i \in 1..Len(hist) : hist[i].op = "transfer"
    /\ \A t \in DepositRefs : CreditsOf(t) <= 1
    => \E f \in Orders(Len(hist)) :
          Replay([i \in 1..Len(hist) |-> hist[f[i]]], [w \in Wallets |-> 0]) = balance

\* C6: a transfer of a > 0 from X to another wallet Y, where the call reads
\* the balances bx >= a and by, ends with X at bx - a, Y at by + a, every
\* other wallet unchanged, and exactly two more rows: a debit on X and a
\* credit on Y, both of amount a.
C6_TransferMovesAmount ==
    \A r \in Reqs :
    Commits("transfer") /\ req[r].pc = "t_commit" /\ req'[r] # req[r] =>
        LET h == hist'[Len(hist')]
            n == Len(txs) IN
        /\ h.amount > 0 /\ req[r].balS >= h.amount /\ h.sender # h.recipient
        /\ h.sender = WalletOfUser(req[r].user)
        /\ h.recipient = WalletByNumber(req[r].number)
        /\ h.amount = req[r].amount
        /\ balance' = [balance EXCEPT ![h.sender] = req[r].balS - h.amount,
                                      ![h.recipient] = req[r].balR + h.amount]
        /\ Len(txs') = n + 2
        /\ SubSeq(txs', 1, n) = txs
        /\ txs'[n + 1].type = "transfer" /\ txs'[n + 2].type = "transfer"
        /\ txs'[n + 1].direction = "debit" /\ txs'[n + 1].wallet = h.sender
        /\ txs'[n + 2].direction = "credit" /\ txs'[n + 2].wallet = h.recipient
        /\ txs'[n + 1].amount = h.amount /\ txs'[n + 2].amount = h.amount
        /\ last' = Response("transfer", "200", 0, 0)

C6_TransferEffect == [][C6_TransferMovesAmount]_vars

\* A transfer has just been answered 200; a wallet that took no part in it
\* holds money.
C6_Witness ==
    /\ last = Response("transfer", "200", 0, 0)
    /\ Len(hist) > 0
    /\ hist[Len(hist)].op = "transfer"
    /\ \E w \in Wallets \ {hist[Len(hist)].sender, hist[Len(hist)].recipient} :
           balance[w] > 0

\* C7: a transfer whose amount exceeds the balance read from the sender's
\* wallet is answered insufficient-balance (reporting that balance and the
\* amount), ends there, and changes no balance and no transaction row.
C7_InsufficientStep ==
    \A r \in Reqs :
        /\ req[r].pc = "t_sender"
        /\ req'[r] # req[r]
        /\ req[r].amount > balance[WalletOfUser(req[r].user)]
        => /\ last' = Response("transfer", "insufficient",
                               balance[WalletOfUser(req[r].user)], req[r].amount)
           /\ req'[r] = Idle
           /\ balance' = balance
           /\ txs' = txs

C7_InsufficientRejected ==
    /\ [][C7_InsufficientStep]_vars
    /\ [](\A r \in Reqs : req[r].pc \in {"t_recipient", "t_commit"}
                             => req[r].amount <= req[r].balS)

C7_Witness ==
    /\ last.op = "transfer" /\ last.resp = "insufficient"
    /\ 0 < last.balance /\ last.balance < last.required

\* C8: a deposit row's status changes at most once: once it is SUCCESS or
\* FAILED no step changes its status or commits a wallet credit for it.
C8_TerminalStep ==
    \A t \in 1..Len(txs) :
        txs[t].status \in {"success", "failed"}
        => /\ txs'[t].status = txs[t].status
           /\ ~(Commits("credit") /\ hist'[Len(hist')].tx = t)

C8_TerminalIsFinal == [][C8_TerminalStep]_vars

\* C9: with requests handled one after the other, the reconciliation of a
\* success webhook for a deposit leaves the row SUCCESS and the owning
\* wallet's balance higher by exactly the event's amount, no other balance
\* changed; after one delivery the row is SUCCESS and credited once.
C9_CreditStep ==
    Commits("credit") =>
        LET t == hist'[Len(hist')].tx IN
        /\ txs'[t].status = "success"
        /\ txs'[t].extra.kind = "event"
        /\ balance' = [balance EXCEPT ![txs[t].wallet] = @ + txs'[t].extra.amount]

C9_DepositRoundTrip ==
    /\ [][C9_CreditStep]_vars
    /\ [](\A t \in DepositRefs :
            Delivered(t) >= 1 => txs[t].status = "success" /\ CreditsOf(t) = 1)

C9_Witness ==
    \E t \in DepositRefs :
        /\ Delivered(t) = 1
        /\ txs[t].status = "success"
        /\ txs[t].extra.amount # txs[t].amount
        /\ balance[txs[t].wallet] = txs[t].extra.amount

\* C10: a webhook whose signature is missing or invalid is rejected before
\* any write: the rejection changes no log, no row and no balance, and every
\* handler that goes on to write, and every committed log, carries a valid
\* signature.
C10_RejectionStep ==
    /\ nops' = nops + 1
    /\ req' = req
    /\ last'.op = "webhook"
    /\ last'.resp \in {"400", "401"}
    => /\ logs' = logs
       /\ txs' = txs
       /\ balance' = balance

C10_SignatureBeforeWrites ==
    /\ [][C10_RejectionStep]_vars
    /\ [](/\ \A i \in 1..Len(logs) : logs[i].sig = "valid"
          /\ \A r \in Reqs : req[r].op = "webhook" => req[r].sig = "valid")

\* An invalid signature has just been rejected while a deposit was pending.
C10_Witness ==
    /\ last = Response("webhook", "401", 0, 0)
    /\ \E t \in DepositRefs : txs[t].status = "pending"
    /\ logs = <<>>

\* Committed transfer rows and committed transfers.
TransferRows == {i \in 1..Len(txs) : txs[i].type = "transfer"}
NumTransfers == Cardinality({i \in 1..Len(hist) : hist[i].op = "transfer"})

\* C11: a transfer commits as one atomic unit: every step of a transfer
\* handler, a failure between its steps included, leaves the committed
\* balances and rows as they were or writes all four effects together (debit
\* row, credit row, sender's debited balance, recipient's credited balance),
\* so every committed state holds both rows and both balance writes of each
\* committed transfer and nothing of any other.
C11_AllOrNothingStep ==
    \A r \in Reqs :
        req[r].op = "transfer" /\ req'[r] # req[r] =>
            \/ /\ balance' = balance
               /\ txs' = txs
               /\ hist' = hist
            \/ LET n == Len(txs) IN
               /\ req[r].pc = "t_commit"
               /\ Commits("transfer")
               /\ Len(txs') = n + 2
               /\ SubSeq(txs', 1, n) = txs
               /\ txs'[n + 1].direction = "debit"
               /\ txs'[n + 1].wallet = req[r].sender
               /\ txs'[n + 2].direction = "credit"
               /\ txs'[n + 2].wallet = req[r].recipient
               /\ balance'[req[r].sender] = req[r].balS - req[r].amount
               /\ balance'[req[r].recipient] = req[r].balR + req[r].amount

C11_TransferAtomic ==
    /\ [][C11_AllOrNothingStep]_vars
    /\ [](/\ Cardinality(TransferRows) = 2 * NumTransfers
          /\ \A i \in TransferRows :
                \E j \in 1..Len(hist) :
                    /\ hist[j].op = "transfer"
                    /\ i \in {hist[j].tx, hist[j].tx + 1})

\* A transfer handler has failed after another transfer had committed: the
\* ledger holds the two rows of the committed one and nothing of the other.
C11_Witness ==
    /\ last = Response("transfer", "aborted", 0, 0)
    /\ NumTransfers = 1
    /\ Cardinality(TransferRows) = 2
    /\ SumBalances > 0

C13_GatewayStep ==
    \A r \in Reqs :
        req[r].op = "deposit" /\ req'[r] # req[r] =>
            /\ req[r].pc = "gateway"
            /\ req'[r] = Idle
            /\ balance' = balance
            /\ \/ /\ last' = Response("deposit", "200", 0, 0)
                  /\ txs' = txs
               \/ /\ last' = Response("deposit", "500", 0, 0)
                  /\ txs'[req[r].tx].status = "failed"
                  /\ txs' = [txs EXCEPT ![req[r].tx].status = "failed"]

C13_StartStep ==
    /\ nops' = nops + 1
    /\ \/ req' = req /\ last'.op = "deposit"
       \/ \E r \in Reqs : req'[r].op = "deposit" /\ req[r].op # "deposit"
    => balance' = balance

C13_GatewayFailureMarksFailed ==
    /\ [][C13_GatewayStep]_vars
    /\ [][C13_StartStep]_vars

\* A deposit has just been answered 500: its row is FAILED, and a wallet
\* credited before still holds its money.
C13_Witness ==
    /\ last = Response("deposit", "500", 0, 0)
    /\ Len(txs) > 0
    /\ txs[Len(txs)].type = "deposit"
    /\ txs[Len(txs)].status = "failed"
    /\ SumBalances > 0

\* C14: every webhook delivery that passes signature validation, whatever
\* its event type, leaves a committed WebhookLog entry, written when the
\* delivery is accepted and before any business effect; an entry is marked
\* processed only in a step that commits the transaction update or needs no
\* action.
C14_DeliveryStep ==
    /\ nops' = nops + 1
    /\ \/ req' = req /\ last' = Response("webhook", "200", 0, 0)
       \/ \E r \in Reqs : req'[r].op = "webhook" /\ req[r].op # "webhook"
    => Len(logs') = Len(logs) + 1

C14_ProcessedStep ==
    Len(logs') > Len(logs) =>
        /\ logs'[Len(logs')].processed
        /\ \/ txs' = txs /\ balance' = balance
           \/ Commits("credit")

C14_LogDurable ==
    /\ [][C14_DeliveryStep]_vars
    /\ [][C14_ProcessedStep]_vars

\* C15: once signature validation has passed, paystack_webhook answers with
\* the success acknowledgment whatever the event, reference, status and
\* amount of the payload: a handler that got past the signature check ends
\* with 200, and a handler that answers in its first statements answers 200
\* or, for a missing or invalid signature, 400 or 401.
C15_ResponseStep ==
    /\ \A r \in Reqs :
          req[r].op = "webhook" /\ req'[r] = Idle /\ last'.resp # "aborted"
          => last' = Response("webhook", "200", 0, 0)
    /\ nops' = nops + 1 /\ req' = req /\ last'.op = "webhook"
       => last'.resp \in {"200", "400", "401"}

C15_AlwaysAcknowledged == [][C15_ResponseStep]_vars

\* C16: a signature-valid charge.success webhook whose reference is missing,
\* matches no row, or matches a row already SUCCESS changes no wallet balance
\* and no transaction row: its only effect is its WebhookLog entry, committed
\* as processed; only a handler that found a row not yet SUCCESS goes on.
C16_NoOpStep ==
    /\ nops' = nops + 1
    /\ Len(logs') = Len(logs) + 1
    /\ LET ref == logs'[Len(logs')].ref IN
       \/ ref = NoRef
       \/ FetchTxByRef(ref) = 0
       \/ txs[FetchTxByRef(ref)].status = "success"
    => /\ balance' = balance
       /\ txs' = txs
       /\ hist' = hist
       /\ req' = req
       /\ SubSeq(logs', 1, Len(logs)) = logs
       /\ logs'[Len(logs')].processed
       /\ logs'[Len(logs')].sig = "valid"
       /\ last' = Response("webhook", "200", 0, 0)

C16_NoOpWebhooks ==
    /\ [][C16_NoOpStep]_vars
    /\ [](\A r \in Reqs :
            req[r].op = "webhook" =>
                /\ req[r].ref \in DepositRefs
                /\ req[r].tx = FetchTxByRef(req[r].ref)
                /\ req[r].found # "success")

\* A settled reference was delivered again and an unknown or missing
\* reference was delivered too: the wallet holds the one credit.
C16_Witness ==
    /\ \E i \in 1..Len(logs) : logs[i].ref \in {NoRef, UnknownRef}
    /\ \E t \in DepositRefs :
           /\ Delivered(t) = 2
           /\ CreditsOf(t) = 1
           /\ SumBalances = txs[t].extra.amount

\* C17: a transfer is rejected, with every balance and every transaction row
\* unchanged, when its amount is <= 0 (400 before anything is read), when the
\* recipient wallet number resolves to no wallet (404), or when it resolves
\* to the sender's own wallet (400); no such transfer reaches the commit.
C17_RecipientStep ==
    \A r \in Reqs :
        LET w == WalletByNumber(req[r].number) IN
        /\ req[r].pc = "t_recipient"
        /\ req'[r] # req[r]
        /\ (w = NoWallet \/ w = req[r].sender)
        => /\ req'[r] = Idle
           /\ balance' = balance
           /\ txs' = txs
           /\ hist' = hist
           /\ last' \in {Response("transfer",
                                  IF w = NoWallet THEN "404" ELSE "400", 0, 0),
                         Response("transfer", "aborted", 0, 0)}

C17_AmountStep ==
    nops' = nops + 1 /\ req' = req /\ last'.op = "transfer"
    => /\ last'.resp = "400"
       /\ balance' = balance
       /\ txs' = txs

C17_TransferRejections ==
    /\ [][C17_RecipientStep]_vars
    /\ [][C17_AmountStep]_vars
    /\ [](/\ \A r \in Reqs :
                req[r].op = "transfer" =>
                    /\ req[r].amount > 0
                    /\ req[r].pc = "t_commit" =>
                           /\ req[r].recipient \in Wallets
                           /\ req[r].recipient # req[r].sender
          /\ \A i \in 1..Len(hist) :
                hist[i].op = "transfer" =>
                    /\ hist[i].amount > 0
                    /\ hist[i].recipient \in Wallets \ {hist[i].sender})

\* A funded sender's transfer to an unknown wallet number has just been
\* answered 404.
C17_Witness ==
    /\ last = Response("transfer", "404", 0, 0)
    /\ SumBalances > 0
    /\ NumTransfers = 0

\* C18: for every guarded wallet route (deposit, transfer, balance,
\* transactions, deposit status) a request made with an API key whose
\* permission set lacks the route's permission is answered 403 and neither
\* reads nor writes the ledger (no handler starts, nothing is committed, the
\* response carries no balance); a request made with a JWT, or with a key
\* that holds the permission, is never answered 403.
C18_GuardStep ==
    nops' = nops + 1 =>
        LET op == IF req' = req THEN last'.op
                  ELSE CHOOSE o \in {"deposit", "transfer", "status", "webhook"} :
                           \E r \in Reqs : req'[r].op = o /\ req[r].op = "idle"
            required == CASE op \in {"deposit", "transfer"} -> op
                          [] OTHER -> "read"
            lacking == cred'.kind = "key" /\ required \notin cred'.perms
        IN  op # "webhook" =>
                /\ cred' \in Credentials
                /\ lacking =>
                       /\ last' = Response(op, "403", 0, 0)
                       /\ req' = req
                       /\ balance' = balance
                       /\ txs' = txs
                       /\ logs' = logs
                       /\ hist' = hist
                /\ ~lacking => ~(req' = req /\ last'.resp = "403")

C18_PermissionGuard == [][C18_GuardStep]_vars

\* A key that may only read has just been refused a transfer out of a funded
\* ledger.
C18_Witness ==
    /\ last = Response("transfer", "403", 0, 0)
    /\ cred = ApiKey({"read"})
    /\ SumBalances > 0

\* C19: check_deposit_status never mutates the ledger: whatever the gateway's
\* verification reports, or when it fails, no step of the handler changes a
\* transaction row, a wallet balance or a webhook log, and it answers with
\* the status read from the row.
C19_StatusStep ==
    \/ \E r \in Reqs : req[r].op = "status" /\ req'[r] # req[r]
    \/ /\ nops' = nops + 1
       /\ \/ req' = req /\ last'.op = "status"
          \/ \E r \in Reqs : req'[r].op = "status" /\ req[r].op # "status"
    => /\ txs' = txs
       /\ balance' = balance
       /\ logs' = logs
       /\ hist' = hist
       /\ \A r \in Reqs :
             req[r].op = "status" /\ req'[r] # req[r] =>
                 /\ last'.resp = "200"
                 /\ last'.status = txs'[req[r].tx].status

C19_StatusReadOnly == [][C19_StatusStep]_vars

\* The gateway has just reported success for a deposit that is PENDING: the
\* row is still PENDING and its wallet holds nothing.
C19_Witness ==
    /\ last.op = "status" /\ last.resp = "200"
    /\ last.paystack_status = "success"
    /\ last.status = "pending"
    /\ txs[last.reference].status = "pending"
    /\ balance[txs[last.reference].wallet] = 0

\* C20: deposit_to_wallet with an amount below the minimum of 100 is rejected
\* (400) before anything is written: the rejection creates no row, starts no
\* gateway call and changes no balance, so every deposit row and every
\* gateway call in flight carries an amount of at least 100.
C20_RejectStep ==
    nops' = nops + 1 /\ req' = req /\ last'.op = "deposit"
    => /\ last'.resp = "400"
       /\ txs' = txs
       /\ balance' = balance
       /\ logs' = logs
       /\ hist' = hist

C20_BelowMinimumRejected ==
    /\ [][C20_RejectStep]_vars
    /\ [](/\ \A t \in DepositRefs : txs[t].amount >= 100
          /\ \A r \in Reqs : req[r].pc = "gateway" => req[r].amount >= 100)

\* A deposit below the minimum has just been refused beside an earlier one
\* that was accepted: the ledger holds the one row.
C20_Witness ==
    /\ last = Response("deposit", "400", 0, 0)
    /\ Len(txs) = 1
    /\ txs[1].type = "deposit"
    /\ \A r \in Reqs : Free(r)

\* The recorded amounts of the SUCCESS rows of wallet w in direction d.
RecordedTotal(w, d) ==
    SumOver([i \in 1..Len(txs) |->
                IF /\ txs[i].wallet = w
                   /\ txs[i].direction = d
                   /\ txs[i].status = "success"
                THEN txs[i].amount ELSE 0],
            1..Len(txs))

\* C22: ledger and balances agree: in every committed state each wallet's
\* balance is the sum of the recorded amounts of its SUCCESS credit rows minus
\* that of its SUCCESS debit rows, and every deposit row in SUCCESS stands for
\* exactly one credit of its wallet by the row's recorded amount, whatever
\* amount the webhook reports.
C22_LedgerMatchesBalances ==
    /\ \A w \in Wallets :
          balance[w] = RecordedTotal(w, "credit") - RecordedTotal(w, "debit")
    /\ \A t \in DepositRefs :
          txs[t].status = "success" =>
              /\ CreditsOf(t) = 1
              /\ \A i \in 1..Len(hist) :
                    hist[i].op = "credit" /\ hist[i].tx = t
                    => /\ hist[i].amount = txs[t].amount
                       /\ hist[i].recipient = txs[t].wallet

\* Number of wallets rows owned by the users row uid.
WalletsOf(uid) == Cardinality({i \in 1..Len(walletRows) : walletRows[i] = uid})

\* The users row uid is between the two inserts of the handler creating it.
BeingProvisioned(uid) ==
    \E r \in Reqs : areq[r].pc = "p_wallet" /\ areq[r].uid = uid

\* C21: after any interleaving of google_callback calls, a failure between
\* the user insert and the wallet insert included, every user whose
\* provisioning is not in flight owns exactly one wallet, and a wallet is
\* only ever inserted for a user that had none.
C21_OneWalletPerUser ==
    /\ [](\A uid \in 1..Len(userRows) :
            ~BeingProvisioned(uid) => WalletsOf(uid) = 1)
    /\ [][\A uid \in 1..Len(userRows') :
            WalletsOf(uid)' # WalletsOf(uid) => WalletsOf(uid) = 0]_vars

\* C23: a user never has more than 5 active API keys after any interleaving
\* of create_api_key and rollover_api_key calls, and a call that arrives
\* while 5 of the caller's keys are active creates no key.
C23_AtMostFiveActiveKeys ==
    /\ [](\A u \in KeyUsers : ActiveKeys(u) <= MaxActiveKeys)
    /\ [][\A r \in Reqs :
            AFree(r) /\ ~AFree(r)' /\ areq'[r].op \in {"create", "rollover"}
                => ActiveKeys(areq'[r].user) < MaxActiveKeys]_vars

\* C24: rollover_api_key goes on to issue a key only for a key of the caller
\* that is expired; a request that is answered on arrival (an active key, a
\* key of another user, an unknown key) stores nothing; a rollover that
\* succeeds stores exactly one new key, not revoked, with the old key's name
\* and exactly its permissions; so every stored key is not revoked and its
\* permissions are within {deposit, transfer, read}.
C24_RolloverOnlyExpiredOwnKey ==
    /\ [](\A r \in Reqs : areq[r].op = "rollover" =>
            /\ areq[r].old # NoKey
            /\ areq[r].old.user = areq[r].user
            /\ areq[r].old.expired
            /\ CopiesIn(areq[r].old, keyRows) >= 1)
    /\ [][aops' # aops => keyRows' = keyRows]_vars
    /\ [][\A r \in Reqs : areq[r].op = "rollover" /\ AFree(r)' =>
            keyRows' = keyRows (+) SetToBag({
                [user |-> areq[r].user, name |-> areq[r].old.name,
                 perms |-> areq[r].old.perms, expired |-> FALSE,
                 revoked |-> FALSE]})]_vars
    /\ [](\A k \in BagToSet(keyRows) :
            k.perms \subseteq {"deposit", "transfer", "read"} /\ ~k.revoked)

\* A rollover has just succeeded: the expired key is still stored and a key
\* of the same user, name and permissions is active beside it.
C24_Witness ==
    /\ alast = AResponse("rollover", "201")
    /\ \E k \in BagToSet(keyRows) :
          /\ k.expired
          /\ CopiesIn([k EXCEPT !.expired = FALSE], keyRows) >= 1

====
